---- MODULE Spec2Model ----
(***************************************************************************)
(* Liquidity aggregation and routing of the RWA platform:                  *)
(*   src/src/lib/stellar/liquidityAggregator.ts  (discovery, router,       *)
(*                                                 bootstrap planner, price *)
(*                                                 feed, pool health)       *)
(*   src/src/lib/stellar/liquidity.ts            (pool math, ledger reads) *)
(*   src/unnamed/part_004                        (position value columns   *)
(*                                                 of the SQL schema)       *)
(*                                                                         *)
(* JavaScript values are modelled as records so that a property read on a  *)
(* value that lacks the property yields undefined, as it does at run time. *)
(* Numbers are exact rationals n/d plus NaN and the two infinities;        *)
(* floating-point rounding is not modelled.                                *)
(***************************************************************************)
EXTENDS Integers, Sequences, FiniteSets, TLC

(***************************************************************************)
(* Bounds of the model                                                     *)
(***************************************************************************)
MaxReserve == 1
MaxLen == 2
MaxTarget == 3
MaxAmount == 2
MaxCalls == 3
MaxSwaps == 2

(***************************************************************************)
(* JavaScript values                                                       *)
(***************************************************************************)
Undefined == [k |-> "undefined"]
Null == [k |-> "null"]
NaN == [k |-> "nan", n |-> 0, d |-> 1]
PosInf == [k |-> "inf", n |-> 1, d |-> 1]
NegInf == [k |-> "inf", n |-> -1, d |-> 1]

Abs(x) == IF x < 0 THEN -x ELSE x

RECURSIVE Gcd(_, _)
Gcd(a, b) == IF b = 0 THEN a ELSE Gcd(b, a % b)

\* the finite number n/d, in lowest terms with a positive denominator
Rat(n, d) ==
  LET s == IF d < 0 THEN -1 ELSE 1
      g == Gcd(Abs(n), Abs(d))
  IN [k |-> "fin", n |-> (s * n) \div g, d |-> (s * d) \div g]

Num(i) == [k |-> "fin", n |-> i, d |-> 1]

\* obj.f : undefined when obj has no property f
GetField(obj, f) == IF f \in DOMAIN obj THEN obj[f] ELSE Undefined

\* ToNumber: undefined converts to NaN, numbers to themselves
ToNumber(v) == IF v.k \in {"fin", "nan", "inf"} THEN v ELSE NaN

Sign(v) == IF v.n > 0 THEN 1 ELSE IF v.n < 0 THEN -1 ELSE 0

\* a + b
JsAdd(x, y) ==
  LET a == ToNumber(x)
      b == ToNumber(y)
  IN IF a.k = "nan" \/ b.k = "nan" THEN NaN
     ELSE IF a.k = "inf" /\ b.k = "inf" THEN (IF a.n = b.n THEN a ELSE NaN)
     ELSE IF a.k = "inf" THEN a
     ELSE IF b.k = "inf" THEN b
     ELSE Rat(a.n * b.d + b.n * a.d, a.d * b.d)

\* a * b
JsMul(x, y) ==
  LET a == ToNumber(x)
      b == ToNumber(y)
  IN IF a.k = "nan" \/ b.k = "nan" THEN NaN
     ELSE IF a.k = "inf" \/ b.k = "inf"
          THEN (IF Sign(a) * Sign(b) = 0 THEN NaN
                ELSE IF Sign(a) * Sign(b) > 0 THEN PosInf ELSE NegInf)
     ELSE Rat(a.n * b.n, a.d * b.d)

\* a - b
JsSub(x, y) == JsAdd(x, JsMul(Num(-1), y))

\* a / b : x/0 is an infinity, 0/0 is NaN (the sign of zero is not modelled)
JsDiv(x, y) ==
  LET a == ToNumber(x)
      b == ToNumber(y)
  IN IF a.k = "nan" \/ b.k = "nan" THEN NaN
     ELSE IF a.k = "inf" /\ b.k = "inf" THEN NaN
     ELSE IF a.k = "inf" THEN (IF a.n * (IF Sign(b) < 0 THEN -1 ELSE 1) > 0 THEN PosInf ELSE NegInf)
     ELSE IF b.k = "inf" THEN Num(0)
     ELSE IF b.n = 0 THEN (IF a.n = 0 THEN NaN ELSE IF a.n > 0 THEN PosInf ELSE NegInf)
     ELSE Rat(a.n * b.d, a.d * b.n)

\* a < b : false as soon as one side is NaN or undefined
JsLt(x, y) ==
  LET a == ToNumber(x)
      b == ToNumber(y)
  IN IF a.k = "nan" \/ b.k = "nan" THEN FALSE
     ELSE IF a.k = "inf" THEN a.n < 0 /\ ~(b.k = "inf" /\ b.n < 0)
     ELSE IF b.k = "inf" THEN b.n > 0
     ELSE a.n * b.d < b.n * a.d

\* a > b
JsGt(x, y) == JsLt(y, x)

\* a === b on numbers: NaN equals nothing, undefined is no number
JsEq(x, y) == x.k \in {"fin", "inf"} /\ x = y

\* Math.min(a, b) : NaN when either argument is NaN
MathMin(x, y) ==
  LET a == ToNumber(x)
      b == ToNumber(y)
  IN IF a.k = "nan" \/ b.k = "nan" THEN NaN
     ELSE IF JsLt(b, a) THEN b ELSE a

\* Math.max(a, b) : NaN when either argument is NaN
MathMax(x, y) ==
  LET a == ToNumber(x)
      b == ToNumber(y)
  IN IF a.k = "nan" \/ b.k = "nan" THEN NaN
     ELSE IF JsGt(b, a) THEN b ELSE a

\* parseFloat of the ledger's decimal amount string; the ledger model keeps
\* an amount as its count of whole units
parseFloat(amount) == Num(amount)

(***************************************************************************)
(* Pool math (liquidity.ts)                                                *)
(***************************************************************************)
\* calculatePoolPrice: r1 / r0, and 0 when r0 is 0
calculatePoolPrice(reserve0, reserve1) ==
  IF reserve0 = Num(0) THEN Num(0) ELSE JsDiv(reserve1, reserve0)

calculateSpotPrice(reserve0, reserve1) == calculatePoolPrice(reserve0, reserve1)

\* calculateSwapOutput with the fee added to the input instead of taken off
calculateSwapOutput_FeeAdded(inputAmount_, inputReserve, outputReserve, feeBps) ==
  LET feeMultiplier == JsDiv(JsAdd(Num(10000), feeBps), Num(10000))
      inputWithFee == JsMul(inputAmount_, feeMultiplier)
      numerator == JsMul(inputWithFee, outputReserve)
      denominator == JsAdd(inputReserve, inputWithFee)
  IN JsDiv(numerator, denominator)

\* calculateSwapOutput returns one number: the constant-product output
calculateSwapOutput(inputAmount_, inputReserve, outputReserve, feeBps) ==
  LET feeMultiplier == JsDiv(JsSub(Num(10000), feeBps), Num(10000))
      inputWithFee == JsMul(inputAmount_, feeMultiplier)
      numerator == JsMul(inputWithFee, outputReserve)
      denominator == JsAdd(inputReserve, inputWithFee)
  IN JsDiv(numerator, denominator)

\* calculateLiquidityValue without the return for a pool that has no shares
calculateLiquidityValue_NoZeroCheck(shares, totalShares, reserves) ==
  LET share == JsDiv(parseFloat(shares), parseFloat(totalShares))
  IN [value0 |-> JsMul(parseFloat(reserves[1].amount), share),
      value1 |-> JsMul(parseFloat(reserves[2].amount), share)]

\* liquidityValue taking both values from the first reserve
liquidityValue_SameReserve(userShares, total, reserve0, reserve1) ==
  LET share == JsDiv(userShares, total)
  IN IF total = Num(0) THEN [value0 |-> Num(0), value1 |-> Num(0)]
     ELSE [value0 |-> JsMul(reserve0, share), value1 |-> JsMul(reserve0, share)]

\* the body of calculateLiquidityValue once its arguments are parsed
liquidityValue(userShares, total, reserve0, reserve1) ==
  LET share == JsDiv(userShares, total)
  IN IF total = Num(0) THEN [value0 |-> Num(0), value1 |-> Num(0)]
     ELSE [value0 |-> JsMul(reserve0, share), value1 |-> JsMul(reserve1, share)]

\* calculateLiquidityValue: the part of each reserve that shares stand for
calculateLiquidityValue(shares, totalShares, reserves) ==
  liquidityValue(parseFloat(shares), parseFloat(totalShares),
                 parseFloat(reserves[1].amount), parseFloat(reserves[2].amount))

\* the current value columns of get_user_liquidity_positions for one position:
\* CASE WHEN total_shares > 0 THEN (shares / total_shares) * total_asset ELSE 0
currentAssetValue(shares, total_shares, total_asset) ==
  IF total_shares > 0 THEN JsMul(JsDiv(Num(shares), Num(total_shares)), Num(total_asset))
  ELSE Num(0)

(***************************************************************************)
(* Deposit share estimate (add-liquidity page, src/unnamed/part_002)       *)
(***************************************************************************)
\* the greatest whole number whose square is at most x, by Newton's iteration
RECURSIVE ISqrtFrom(_, _)
ISqrtFrom(x, r) ==
  LET next == (r + x \div r) \div 2
  IN IF next >= r THEN r ELSE ISqrtFrom(x, next)

ISqrt(x) == IF x = 0 THEN 0 ELSE ISqrtFrom(x, x)

\* Math.sqrt: NaN below zero; the root is kept to two decimal places, which
\* is exact on squares
MathSqrt(x) ==
  LET a == ToNumber(x)
  IN IF a.k = "nan" THEN NaN
     ELSE IF a.k = "inf" THEN (IF a.n > 0 THEN PosInf ELSE NaN)
     ELSE IF a.n < 0 THEN NaN
     ELSE Rat(ISqrt(a.n * a.d * 10000), a.d * 100)

\* v || d : d when v is 0, NaN, undefined or null
OrDefault(v, d) ==
  IF v = Num(0) \/ v.k \in {"nan", "undefined", "null"} THEN d ELSE v

\* calculateDepositOutput (imported from lib/stellar/liquidity; its body is
\* not part of the sources): the first deposit mints the geometric mean, a
\* later one the limiting side's proportion of the shares
calculateDepositOutput(amountA, amountB, reserveA, reserveB, totalShares) ==
  IF totalShares = Num(0) THEN MathSqrt(JsMul(amountA, amountB))
  ELSE JsMul(MathMin(JsDiv(amountA, reserveA), JsDiv(amountB, reserveB)), totalShares)

\* estimatedShares with pool.total_shares || 1
estimatedShares_SharesOrOne(assetA, assetB, pool) ==
  calculateDepositOutput(assetA, assetB,
                         OrDefault(pool.total_asset_a, Num(1)),
                         OrDefault(pool.total_asset_b, Num(1)),
                         OrDefault(pool.total_shares, Num(1)))

\* const estimatedShares = calculateDepositOutput(assetA, assetB,
\*   pool.total_asset_a || 1, pool.total_asset_b || 1, pool.total_shares || 0)
estimatedShares(assetA, assetB, pool) ==
  calculateDepositOutput(assetA, assetB,
                         OrDefault(pool.total_asset_a, Num(1)),
                         OrDefault(pool.total_asset_b, Num(1)),
                         OrDefault(pool.total_shares, Num(0)))

(***************************************************************************)
(* Router (liquidityAggregator.ts)                                         *)
(***************************************************************************)
\* the loop of findBestSource from index i on, with the best so far
RECURSIVE findBestLoop(_, _, _, _, _)
findBestLoop(srcs, amount, i, bestSource, bestOutput) ==
  IF i > Len(srcs) THEN bestSource
  ELSE LET source == srcs[i]
           swap == calculateSwapOutput(amount, source.reserveA, source.reserveB, source.fee)
           \* const { outputAmount } = <the number returned>
           outputAmount == GetField(swap, "outputAmount")
       IN IF JsGt(outputAmount, bestOutput)
          THEN findBestLoop(srcs, amount, i + 1, source, outputAmount)
          ELSE findBestLoop(srcs, amount, i + 1, bestSource, bestOutput)

findBestSource(srcs, amount) ==
  IF Len(srcs) = 0 THEN Null
  ELSE findBestLoop(srcs, amount, 1, Null, Num(0))

\* the comparator handed to sort: priceA - priceB; sort reads a NaN as 0
SortCompare(a, b, amount) ==
  LET priceA == GetField(calculateSwapOutput(amount, a.reserveA, a.reserveB, a.fee), "priceImpact")
      priceB == GetField(calculateSwapOutput(amount, b.reserveA, b.reserveB, b.fee), "priceImpact")
      v == JsSub(priceA, priceB)
  IN IF v.k = "nan" THEN Num(0) ELSE v

\* Array.prototype.sort is stable: x goes after every element not greater than it
RECURSIVE InsertSorted(_, _, _)
InsertSorted(sorted, x, amount) ==
  IF Len(sorted) = 0 THEN <<x>>
  ELSE LET last == sorted[Len(sorted)]
       IN IF JsGt(SortCompare(last, x, amount), Num(0))
          THEN Append(InsertSorted(SubSeq(sorted, 1, Len(sorted) - 1), x, amount), last)
          ELSE Append(sorted, x)

RECURSIVE SortSources(_, _)
SortSources(srcs, amount) ==
  IF Len(srcs) = 0 THEN <<>>
  ELSE InsertSorted(SortSources(SubSeq(srcs, 1, Len(srcs) - 1), amount), srcs[Len(srcs)], amount)

MinInt(a, b) == IF a < b THEN a ELSE b

\* the allocation loop of calculateOptimalRoute: iterations i .. splitsToUse
RECURSIVE routeLoop(_, _, _, _, _)
routeLoop(route, sortedSources, amountPerSplit, i, splitsToUse) ==
  IF ~(i <= splitsToUse) THEN route
  ELSE LET source == sortedSources[i]
           swap == calculateSwapOutput(amountPerSplit, source.reserveA, source.reserveB, source.fee)
           outputAmount == GetField(swap, "outputAmount")
           priceImpact == GetField(swap, "priceImpact")
           next == [route EXCEPT
                      !.sources = Append(@, [poolId |-> source.poolId,
                                             inputAmount |-> amountPerSplit,
                                             outputAmount |-> outputAmount,
                                             priceImpact |-> priceImpact]),
                      !.totalInput = JsAdd(@, amountPerSplit),
                      !.totalOutput = JsAdd(@, outputAmount)]
       IN routeLoop(next, sortedSources, amountPerSplit, i + 1, splitsToUse)

\* reduce((sum, s) => sum + s.priceImpact, 0)
RECURSIVE SumPriceImpact(_, _)
SumPriceImpact(allocs, i) ==
  IF i = 0 THEN Num(0) ELSE JsAdd(SumPriceImpact(allocs, i - 1), allocs[i].priceImpact)

EmptyRoute ==
  [sources |-> <<>>, totalInput |-> Num(0), totalOutput |-> Num(0),
   averagePriceImpact |-> Num(0), effectivePrice |-> Num(0)]

\* AmountPerSplit with the division left out
AmountPerSplit_Whole(amount, splitsToUse) == amount

\* const amountPerSplit = inputAmount / splitsToUse
AmountPerSplit(amount, splitsToUse) == JsDiv(amount, Num(splitsToUse))

\* calculateOptimalRoute without the return for an empty list
calculateOptimalRoute_NoEmptyCheck(srcs, amount, splits) ==
  LET sortedSources == SortSources(srcs, amount)
      splitsToUse == MinInt(splits, Len(sortedSources))
      amountPerSplit == AmountPerSplit(amount, splitsToUse)
      route == routeLoop(EmptyRoute, sortedSources, amountPerSplit, 1, splitsToUse)
  IN [route EXCEPT
        !.averagePriceImpact =
           JsDiv(SumPriceImpact(route.sources, Len(route.sources)), Num(Len(route.sources))),
        !.effectivePrice = JsDiv(route.totalInput, route.totalOutput)]

calculateOptimalRoute(srcs, amount, splits) ==
  IF Len(srcs) = 0 THEN EmptyRoute
  ELSE LET sortedSources == SortSources(srcs, amount)
           splitsToUse == MinInt(splits, Len(sortedSources))
           amountPerSplit == AmountPerSplit(amount, splitsToUse)
           route == routeLoop(EmptyRoute, sortedSources, amountPerSplit, 1, splitsToUse)
       IN [route EXCEPT
             !.averagePriceImpact =
                JsDiv(SumPriceImpact(route.sources, Len(route.sources)), Num(Len(route.sources))),
             !.effectivePrice = JsDiv(route.totalInput, route.totalOutput)]

(***************************************************************************)
(* Ledger reads and pool discovery                                         *)
(***************************************************************************)
\* outcome of a call that may throw
Return(v) == [ok |-> TRUE, val |-> v]
Throw == [ok |-> FALSE]

\* const feeTiers = [30, 100, 300]
feeTiers == <<30, 100, 300>>

NativeAsset == [code |-> "XLM", issuer |-> "native"]
PlatAsset == [code |-> "PLAT", issuer |-> "GISSUER"]

\* v instanceof Asset
IsAsset(v) == {"code", "issuer"} \subseteq DOMAIN v

\* Asset.compare(a, b) = -1 : native first, then by code
AssetBefore(a, b) ==
  /\ a # b
  /\ \/ a = NativeAsset
     \/ (b # NativeAsset /\ a.code = "PLAT")

\* getLiquidityPoolId answering with the pair's 30 bp pool whatever it is given
getLiquidityPoolId_AnyParams(params) ==
  Return([assetA |-> NativeAsset, assetB |-> PlatAsset, fee |-> Num(30)])

\* getLiquidityPoolId(params): builds LiquidityPoolAsset(params.assetA,
\* params.assetB, params.fee), whose constructor throws unless both are assets
\* in order and the fee is 30, and returns the id of that pool
getLiquidityPoolId(params) ==
  LET a == GetField(params, "assetA")
      b == GetField(params, "assetB")
      fee == GetField(params, "fee")
  IN IF ~IsAsset(a) \/ ~IsAsset(b) THEN Throw
     ELSE IF ~AssetBefore(a, b) THEN Throw
     ELSE IF fee # Num(30) THEN Throw
     ELSE Return([assetA |-> a, assetB |-> b, fee |-> fee])

\* getPoolInfo: the pool, null on a 404, and any other failure is rethrown
getPoolInfo(poolId, ldg) ==
  LET resp == ldg[poolId.fee.n]
  IN IF resp.kind = "pool" THEN Return(resp)
     ELSE IF resp.kind = "notfound" THEN Return(Null)
     ELSE Throw

\* the try block of one iteration of the fee-tier loop: the sources after it,
\* or the exception it raises.  getLiquidityPoolId is called with
\* (assetA, assetB, fee); it has one parameter, so params is bound to assetA
\* and the other two arguments are dropped.
discoverTierTry(srcs, assetA, assetB, fee, ldg) ==
  LET poolId == getLiquidityPoolId(assetA)
  IN IF ~poolId.ok THEN Throw
     ELSE LET poolInfo == getPoolInfo(poolId.val, ldg)
          IN IF ~poolInfo.ok THEN Throw
             ELSE IF poolInfo.val = Null THEN Return(srcs)
             ELSE LET reserveA == parseFloat(poolInfo.val.reserveA)
                      reserveB == parseFloat(poolInfo.val.reserveB)
                      totalShares == parseFloat(poolInfo.val.total_shares)
                  IN Return(Append(srcs, [poolId |-> poolId.val,
                                          source |-> "stellar_native",
                                          assetA |-> assetA,
                                          assetB |-> assetB,
                                          reserveA |-> reserveA,
                                          reserveB |-> reserveB,
                                          totalShares |-> totalShares,
                                          fee |-> Num(fee),
                                          tvl |-> JsAdd(reserveA, reserveB),
                                          price |-> calculateSpotPrice(reserveA, reserveB)]))

\* catch (error) { "no pool found for this tier" } : the loop goes on
discoverTier(srcs, assetA, assetB, fee, ldg) ==
  LET r == discoverTierTry(srcs, assetA, assetB, fee, ldg)
  IN IF r.ok THEN r.val ELSE srcs

RECURSIVE discoverLoop(_, _, _, _)
discoverLoop(i, assetA, assetB, ldg) ==
  IF i = 0 THEN <<>>
  ELSE discoverTier(discoverLoop(i - 1, assetA, assetB, ldg), assetA, assetB, feeTiers[i], ldg)

\* the ledger reads one discovery call issues, in order: iteration number i
\* reaches getPoolInfo only when getLiquidityPoolId has returned an id
RECURSIVE discoverReads(_, _, _, _)
discoverReads(i, assetA, assetB, ldg) ==
  IF i = 0 THEN <<>>
  ELSE LET before == discoverReads(i - 1, assetA, assetB, ldg)
           poolId == getLiquidityPoolId(assetA)
       IN IF poolId.ok THEN Append(before, poolId.val.fee.n) ELSE before

\* external DEX discovery is a placeholder that returns no source
discoverExternalDEXs(assetA, assetB) == <<>>

discoverLiquiditySources(assetA, assetB, ldg) ==
  discoverLoop(Len(feeTiers), assetA, assetB, ldg) \o discoverExternalDEXs(assetA, assetB)

(***************************************************************************)
(* Bootstrap planner                                                       *)
(***************************************************************************)
\* sources.reduce((sum, s) => sum + s.tvl, 0)
RECURSIVE SumTvl(_, _)
SumTvl(srcs, i) == IF i = 0 THEN Num(0) ELSE JsAdd(SumTvl(srcs, i - 1), srcs[i].tvl)

\* FailedPlan that leaves the planned amounts unset
FailedPlan_Unset(msg) ==
  [success |-> FALSE, liquidityAdded |-> [assetA |-> Undefined, assetB |-> Undefined],
   sourcesUsed |-> <<>>, message |-> msg]

FailedPlan(msg) ==
  [success |-> FALSE, liquidityAdded |-> [assetA |-> Num(0), assetB |-> Num(0)],
   sourcesUsed |-> <<>>, message |-> msg]

\* the proportional distribution loop over sources 1 .. i
RECURSIVE allocateLoop(_, _, _, _)
allocateLoop(srcs, i, target, totalAvailableLiquidity) ==
  IF i = 0 THEN [assetA |-> Num(0), assetB |-> Num(0), sourcesUsed |-> <<>>]
  ELSE LET acc == allocateLoop(srcs, i - 1, target, totalAvailableLiquidity)
           source == srcs[i]
           proportion == MathMin(JsDiv(source.tvl, totalAvailableLiquidity), Num(1))
           amountFromSource == JsMul(JsMul(target, proportion), Rat(1, 2))
       IN [assetA |-> JsAdd(acc.assetA, JsDiv(amountFromSource, source.price)),
           assetB |-> JsAdd(acc.assetB, amountFromSource),
           sourcesUsed |-> Append(acc.sourcesUsed, source.poolId)]

\* bootstrapPlan without the "no sources" return
bootstrapPlan_NoEmptyCheck(srcs, cfg) ==
  LET totalAvailableLiquidity == SumTvl(srcs, Len(srcs))
  IN IF JsLt(totalAvailableLiquidity, cfg.targetLiquidityUSD)
          THEN FailedPlan("Insufficient liquidity")
     ELSE LET plan == allocateLoop(srcs, Len(srcs), cfg.targetLiquidityUSD, totalAvailableLiquidity)
          IN [success |-> TRUE,
              liquidityAdded |-> [assetA |-> plan.assetA, assetB |-> plan.assetB],
              sourcesUsed |-> plan.sourcesUsed,
              message |-> "Successfully planned bootstrap"]

\* bootstrapPlan that plans without either early return
bootstrapPlan_NoChecks(srcs, cfg) ==
  LET totalAvailableLiquidity == SumTvl(srcs, Len(srcs))
      plan == allocateLoop(srcs, Len(srcs), cfg.targetLiquidityUSD, totalAvailableLiquidity)
  IN [success |-> TRUE,
      liquidityAdded |-> [assetA |-> plan.assetA, assetB |-> plan.assetB],
      sourcesUsed |-> plan.sourcesUsed,
      message |-> "Successfully planned bootstrap"]

\* bootstrapNewPool after discovery has returned srcs
bootstrapPlan(srcs, cfg) ==
  LET totalAvailableLiquidity == SumTvl(srcs, Len(srcs))
  IN IF Len(srcs) = 0 THEN FailedPlan("No liquidity sources available for bootstrapping")
     ELSE IF JsLt(totalAvailableLiquidity, cfg.targetLiquidityUSD)
          THEN FailedPlan("Insufficient liquidity")
     ELSE LET plan == allocateLoop(srcs, Len(srcs), cfg.targetLiquidityUSD, totalAvailableLiquidity)
          IN [success |-> TRUE,
              liquidityAdded |-> [assetA |-> plan.assetA, assetB |-> plan.assetB],
              sourcesUsed |-> plan.sourcesUsed,
              message |-> "Successfully planned bootstrap"]

\* the try block of bootstrapNewPool; nothing in it raises
bootstrapTry(cfg, ldg) ==
  Return(bootstrapPlan(discoverLiquiditySources(cfg.assetA, cfg.assetB, ldg), cfg))

\* catch (error) : a failure result, never a rethrow
bootstrapNewPool(cfg, ldg) ==
  LET r == bootstrapTry(cfg, ldg)
  IN IF r.ok THEN r.val ELSE FailedPlan("Failed to bootstrap pool")

(***************************************************************************)
(* Price feed                                                              *)
(***************************************************************************)
\* sources.reduce((sum, s) => sum + s.price * (s.tvl / totalTVL), 0)
RECURSIVE SumWeightedPrice(_, _, _)
SumWeightedPrice(srcs, i, totalTVL) ==
  IF i = 0 THEN Num(0)
  ELSE JsAdd(SumWeightedPrice(srcs, i - 1, totalTVL),
             JsMul(srcs[i].price, JsDiv(srcs[i].tvl, totalTVL)))

\* Math.max(...prices) over sources 1 .. i : -Infinity for no argument
RECURSIVE MaxPrice(_, _)
MaxPrice(srcs, i) == IF i = 0 THEN NegInf ELSE MathMax(MaxPrice(srcs, i - 1), srcs[i].price)

\* Math.min(...prices) over sources 1 .. i : Infinity for no argument
RECURSIVE MinPrice(_, _)
MinPrice(srcs, i) == IF i = 0 THEN PosInf ELSE MathMin(MinPrice(srcs, i - 1), srcs[i].price)

NoPrice == [price |-> Num(0), sources |-> Num(0), spread |-> Num(0)]

\* getAggregatedPrice after discovery has returned srcs
aggregatePrice(srcs) ==
  IF Len(srcs) = 0 THEN NoPrice
  ELSE LET totalTVL == SumTvl(srcs, Len(srcs))
       IN [price |-> SumWeightedPrice(srcs, Len(srcs), totalTVL),
           sources |-> Num(Len(srcs)),
           spread |-> JsSub(MaxPrice(srcs, Len(srcs)), MinPrice(srcs, Len(srcs)))]

\* nothing in the try block raises; the catch would return NoPrice as well
getAggregatedPrice(assetA, assetB, ldg) ==
  aggregatePrice(discoverLiquiditySources(assetA, assetB, ldg))

(***************************************************************************)
(* Pool health                                                             *)
(***************************************************************************)
\* the three checks of checkPoolHealth, in the order the code makes them
lowTvl(source) == JsLt(source.tvl, Num(1000))

imbalanced(source) ==
  LET ratio == JsDiv(source.reserveA, source.reserveB)
  IN JsGt(ratio, Num(10)) \/ JsLt(ratio, Rat(1, 10))

noShares(source) == source.totalShares = Num(0)

healthScore(source) ==
  100 - (IF lowTvl(source) THEN 30 ELSE 0)
      - (IF imbalanced(source) THEN 20 ELSE 0)
      - (IF noShares(source) THEN 50 ELSE 0)

healthIssues(source) ==
  (IF lowTvl(source) THEN <<"Low TVL (< $1,000)">> ELSE <<>>)
  \o (IF imbalanced(source) THEN <<"Imbalanced reserves">> ELSE <<>>)
  \o (IF noShares(source) THEN <<"No liquidity providers">> ELSE <<>>)

\* checkPoolHealth with healthy decided by score > 50
checkPoolHealth_StrictHealthy(source) ==
  [healthy |-> healthScore(source) > 50,
   issues |-> healthIssues(source),
   score |-> IF healthScore(source) < 0 THEN 0 ELSE healthScore(source)]

\* healthy is decided on the score before the floor Math.max(0, score)
checkPoolHealth(source) ==
  [healthy |-> healthScore(source) >= 50,
   issues |-> healthIssues(source),
   score |-> IF healthScore(source) < 0 THEN 0 ELSE healthScore(source)]

(***************************************************************************)
(* State                                                                   *)
(***************************************************************************)
VARIABLES
  op,           \* the operation that has been applied, "none" before
  sources,      \* router: the sources argument; planner: the discovered list
  inputAmount,  \* router argument
  maxSplits,    \* router argument
  ledger,       \* what the ledger query service answers for each fee tier
  config,       \* the BootstrapConfig
  reads,        \* the fee tiers of the ledger reads issued so far, in order
  args,         \* pool math and pool health: the arguments of the call
  result,       \* the value returned by the operation
  pledgeStatus, \* admin: the status column of the pledge_requests table
  payments,     \* admin: PLAT payments the ledger has accepted, per pledge request
  pledges,      \* admin: each session's loaded list, as the status it shows
  processing,   \* admin: each session's processing state (a pledge id or null)
  calls,        \* admin: the handleApprove / handleReject invocations under way
  started       \* admin: the number of invocations started so far

\* the state of the aggregator and pool math calls, and that of the admin page
callVars == <<op, sources, inputAmount, maxSplits, ledger, config, reads, args, result>>

adminVars == <<pledgeStatus, payments, pledges, processing, calls, started>>

vars == <<op, sources, inputAmount, maxSplits, ledger, config, reads, args, result,
          pledgeStatus, payments, pledges, processing, calls, started>>

\* the pledge requests and the admin sessions (browser tabs) of the model
PledgeIds == {"p1", "p2"}

Sessions == {"s1", "s2"}

\* every request pending, every session freshly loaded and idle
AdminIdle ==
  /\ pledgeStatus = [p \in PledgeIds |-> "pending"]
  /\ payments = [p \in PledgeIds |-> 0]
  /\ pledges = [s \in Sessions |-> [p \in PledgeIds |-> "pending"]]
  /\ processing = [s \in Sessions |-> "null"]
  /\ calls = {}
  /\ started = 0

Reserves == 0 .. MaxReserve

\* a LiquiditySource as discovery builds one: tvl and price come from the reserves
MakeSource(id, rA, rB, fee) ==
  [poolId |-> id, reserveA |-> Num(rA), reserveB |-> Num(rB), totalShares |-> Num(1),
   fee |-> Num(fee),
   tvl |-> JsAdd(Num(rA), Num(rB)),
   price |-> calculateSpotPrice(Num(rA), Num(rB))]

\* source lists of up to MaxLen pools; the pool in place i has poolId i
SourceLists ==
  UNION { { [i \in 1 .. len |-> MakeSource(i, f[i][1], f[i][2], f[i][3])] :
              f \in [1 .. len -> Reserves \X Reserves \X {30, 300}] } :
          len \in 0 .. MaxLen }

Responses ==
  {[kind |-> "notfound"], [kind |-> "error"]} \cup
  {[kind |-> "pool", reserveA |-> a, reserveB |-> b, total_shares |-> t] :
      a \in Reserves, b \in Reserves, t \in {0, 1}}

Tiers == {feeTiers[i] : i \in 1 .. Len(feeTiers)}

NoLedger == [t \in Tiers |-> [kind |-> "notfound"]]

Configs ==
  {[assetA |-> pair[1], assetB |-> pair[2], targetLiquidityUSD |-> Num(t)] :
      pair \in {<<PlatAsset, NativeAsset>>, <<NativeAsset, PlatAsset>>},
      t \in 0 .. MaxTarget}

NoConfig == [assetA |-> PlatAsset, assetB |-> NativeAsset, targetLiquidityUSD |-> Num(0)]

NoArgs == [fn |-> "none"]

\* arguments of calculateSwapOutput: positive reserves, fees from 0 to 100 %
PositiveReserves == 1 .. MaxReserve + 2

FeeBpsValues == {0, 30, 5000, 10000}

SwapAmounts == 0 .. MaxAmount + 1

SwapArgs ==
  {[fn |-> "calculateSwapOutput", inputAmount |-> Num(a), inputReserve |-> Num(r),
    outputReserve |-> Num(q), feeBps |-> Num(f)] :
      a \in SwapAmounts, r \in PositiveReserves, q \in PositiveReserves,
      f \in FeeBpsValues}

\* arguments of checkPoolHealth: sources around the three thresholds
HealthReserves == {0, 1, 10, 11, 250, 500, 1000}

HealthArgs ==
  {[fn |-> "checkPoolHealth",
    source |-> [MakeSource(1, a, b, 30) EXCEPT !.totalShares = Num(t)]] :
      a \in HealthReserves, b \in HealthReserves, t \in {0, 1}}

\* arguments of calculateLiquidityValue and the stored position of
\* get_user_liquidity_positions: amounts as the ledger and the tables hold them
ShareCounts == {0, 1, 50, 1000}

ReserveAmounts == {0, 3, 1000, 2000}

\* arguments of the deposit estimate: the two amounts of the form and the
\* pool row, either empty or with reserves and shares
DepositAmounts == {1, 2, 3, 100, 150, 400}

PoolRows ==
  {[total_asset_a |-> Num(0), total_asset_b |-> Num(0), total_shares |-> Num(0)]} \cup
  {[total_asset_a |-> Num(a), total_asset_b |-> Num(b), total_shares |-> Num(t)] :
      a \in {1, 1000, 2000}, b \in {1, 1000, 2000}, t \in {1, 1000}}

DepositArgs ==
  {[fn |-> "estimatedShares", assetA |-> Num(a), assetB |-> Num(b), pool |-> row] :
      a \in DepositAmounts, b \in DepositAmounts, row \in PoolRows}

ValueArgs ==
  {[fn |-> "calculateLiquidityValue", shares |-> s, totalShares |-> t,
    reserves |-> <<[amount |-> a], [amount |-> b]>>] :
      s \in ShareCounts, t \in ShareCounts, a \in ReserveAmounts, b \in ReserveAmounts}

\* what the ledger holds for the pair: the fee tiers with a pool, and the
\* source that discovery is to build for tier number i of feeTiers
PoolTiers == {t \in Tiers : ledger[t].kind = "pool"}

RECURSIVE LedgerSources(_)
LedgerSources(i) ==
  IF i = 0 THEN <<>>
  ELSE LET t == feeTiers[i]
           rest == LedgerSources(i - 1)
       IN IF ledger[t].kind = "pool"
          THEN Append(rest, MakeSource(t, ledger[t].reserveA, ledger[t].reserveB, t))
          ELSE rest

AllLedgerSources == LedgerSources(Len(feeTiers))

LedgerTvl == SumTvl(AllLedgerSources, Len(AllLedgerSources))

(***************************************************************************)
(* Router calls: the arguments are drawn at the start, one call is applied *)
(***************************************************************************)
Init ==
  /\ op = "none"
  /\ sources \in SourceLists
  /\ inputAmount \in {Num(a) : a \in 1 .. MaxAmount}
  /\ maxSplits \in 0 .. MaxLen + 1
  /\ ledger = NoLedger
  /\ config = NoConfig
  /\ reads = <<>>
  /\ args = NoArgs
  /\ result = Null
  /\ AdminIdle

FindBestSource ==
  /\ op = "none"
  /\ op' = "findBestSource"
  /\ result' = findBestSource(sources, inputAmount)
  /\ UNCHANGED <<sources, inputAmount, maxSplits, ledger, config, reads, args>>
  /\ UNCHANGED adminVars

CalculateOptimalRoute ==
  /\ op = "none"
  /\ op' = "calculateOptimalRoute"
  /\ result' = calculateOptimalRoute(sources, inputAmount, maxSplits)
  /\ UNCHANGED <<sources, inputAmount, maxSplits, ledger, config, reads, args>>
  /\ UNCHANGED adminVars

Next == FindBestSource \/ CalculateOptimalRoute

Spec == Init /\ [][Next]_vars

(***************************************************************************)
(* Discovery, bootstrap planning and the price feed against a ledger       *)
(***************************************************************************)
InitBootstrap ==
  /\ op = "none"
  /\ sources = <<>>
  /\ inputAmount = Num(1)
  /\ maxSplits = 0
  /\ ledger \in [Tiers -> Responses]
  /\ config \in Configs
  /\ reads = <<>>
  /\ args = NoArgs
  /\ result = Null
  /\ AdminIdle

BootstrapNewPool ==
  /\ op = "none"
  /\ op' = "bootstrapNewPool"
  /\ sources' = discoverLiquiditySources(config.assetA, config.assetB, ledger)
  /\ reads' = reads \o discoverReads(Len(feeTiers), config.assetA, config.assetB, ledger)
  /\ result' = bootstrapNewPool(config, ledger)
  /\ UNCHANGED <<inputAmount, maxSplits, ledger, config, args>>
  /\ UNCHANGED adminVars

\* one discovery call for the configured pair
DiscoverLiquiditySources ==
  /\ op = "none"
  /\ op' = "discoverLiquiditySources"
  /\ sources' = discoverLiquiditySources(config.assetA, config.assetB, ledger)
  /\ reads' = reads \o discoverReads(Len(feeTiers), config.assetA, config.assetB, ledger)
  /\ result' = sources'
  /\ UNCHANGED <<inputAmount, maxSplits, ledger, config, args>>
  /\ UNCHANGED adminVars

\* DiscoverRepeat answering from remembered ledger answers instead of a new call
DiscoverRepeat_FromLedger ==
  /\ op = "discoverLiquiditySources"
  /\ op' = "discoverRepeat"
  /\ result' = AllLedgerSources
  /\ UNCHANGED <<sources, inputAmount, maxSplits, ledger, config, reads, args>>
  /\ UNCHANGED adminVars

\* a second discovery call for the same pair against the same ledger; sources
\* keeps the list of the first call, result is the list of the second
DiscoverRepeat ==
  /\ op = "discoverLiquiditySources"
  /\ op' = "discoverRepeat"
  /\ result' = discoverLiquiditySources(config.assetA, config.assetB, ledger)
  /\ reads' = reads \o discoverReads(Len(feeTiers), config.assetA, config.assetB, ledger)
  /\ UNCHANGED <<sources, inputAmount, maxSplits, ledger, config, args>>
  /\ UNCHANGED adminVars

GetAggregatedPrice ==
  /\ op = "none"
  /\ op' = "getAggregatedPrice"
  /\ sources' = discoverLiquiditySources(config.assetA, config.assetB, ledger)
  /\ reads' = reads \o discoverReads(Len(feeTiers), config.assetA, config.assetB, ledger)
  /\ result' = getAggregatedPrice(config.assetA, config.assetB, ledger)
  /\ UNCHANGED <<inputAmount, maxSplits, ledger, config, args>>
  /\ UNCHANGED adminVars

NextBootstrap ==
  \/ BootstrapNewPool
  \/ DiscoverLiquiditySources
  \/ DiscoverRepeat
  \/ GetAggregatedPrice

SpecBootstrap == InitBootstrap /\ [][NextBootstrap]_vars

(***************************************************************************)
(* Pool math and pool health calls on drawn arguments                      *)
(***************************************************************************)
InitMath ==
  /\ op = "none"
  /\ sources = <<>>
  /\ inputAmount = Num(1)
  /\ maxSplits = 0
  /\ ledger = NoLedger
  /\ config = NoConfig
  /\ reads = <<>>
  /\ args \in SwapArgs \cup HealthArgs \cup ValueArgs \cup DepositArgs
  /\ result = Null
  /\ AdminIdle

CalculateSwapOutput ==
  /\ op = "none"
  /\ args.fn = "calculateSwapOutput"
  /\ op' = "calculateSwapOutput"
  /\ result' = calculateSwapOutput(args.inputAmount, args.inputReserve,
                                    args.outputReserve, args.feeBps)
  /\ UNCHANGED <<sources, inputAmount, maxSplits, ledger, config, reads, args>>
  /\ UNCHANGED adminVars

CheckPoolHealth ==
  /\ op = "none"
  /\ args.fn = "checkPoolHealth"
  /\ op' = "checkPoolHealth"
  /\ result' = checkPoolHealth(args.source)
  /\ UNCHANGED <<sources, inputAmount, maxSplits, ledger, config, reads, args>>
  /\ UNCHANGED adminVars

CalculateLiquidityValue ==
  /\ op = "none"
  /\ args.fn = "calculateLiquidityValue"
  /\ op' = "calculateLiquidityValue"
  /\ result' = calculateLiquidityValue(args.shares, args.totalShares, args.reserves)
  /\ UNCHANGED <<sources, inputAmount, maxSplits, ledger, config, reads, args>>
  /\ UNCHANGED adminVars

\* the row get_user_liquidity_positions returns for a position with shares > 0
GetUserLiquidityPositions ==
  /\ op = "none"
  /\ args.fn = "calculateLiquidityValue"
  /\ args.shares > 0
  /\ op' = "get_user_liquidity_positions"
  /\ result' = [current_asset_a_value |->
                   currentAssetValue(args.shares, args.totalShares, args.reserves[1].amount),
                 current_asset_b_value |->
                   currentAssetValue(args.shares, args.totalShares, args.reserves[2].amount)]
  /\ UNCHANGED <<sources, inputAmount, maxSplits, ledger, config, reads, args>>
  /\ UNCHANGED adminVars

\* the share estimate of the add-liquidity page for the amounts entered
EstimateShares ==
  /\ op = "none"
  /\ args.fn = "estimatedShares"
  /\ op' = "estimatedShares"
  /\ result' = estimatedShares(args.assetA, args.assetB, args.pool)
  /\ UNCHANGED <<sources, inputAmount, maxSplits, ledger, config, reads, args>>
  /\ UNCHANGED adminVars

\* handleAddLiquidity for a wallet without a position in the pool, once the
\* deposit transaction has been submitted: the pool row and the new position
HandleAddLiquidity ==
  /\ op = "none"
  /\ args.fn = "estimatedShares"
  /\ JsGt(args.assetA, Num(0)) /\ JsGt(args.assetB, Num(0))
  /\ op' = "handleAddLiquidity"
  /\ LET shares == estimatedShares(args.assetA, args.assetB, args.pool)
     IN result' =
          [pool |-> [total_asset_a |-> JsAdd(args.pool.total_asset_a, args.assetA),
                     total_asset_b |-> JsAdd(args.pool.total_asset_b, args.assetB),
                     total_shares |-> JsAdd(args.pool.total_shares, shares)],
           position |-> [shares |-> shares,
                         asset_a_deposited |-> args.assetA,
                         asset_b_deposited |-> args.assetB]]
  /\ UNCHANGED <<sources, inputAmount, maxSplits, ledger, config, reads, args>>
  /\ UNCHANGED adminVars

\* the value of the whole position right after the deposit, with no swap in
\* between: calculateLiquidityValue on the rows the deposit has written
WithdrawAll ==
  /\ op = "handleAddLiquidity"
  /\ op' = "withdrawAll"
  /\ result' = liquidityValue(result.position.shares, result.pool.total_shares,
                               result.pool.total_asset_a, result.pool.total_asset_b)
  /\ UNCHANGED <<sources, inputAmount, maxSplits, ledger, config, reads, args>>
  /\ UNCHANGED adminVars

NextMath ==
  \/ EstimateShares
  \/ HandleAddLiquidity
  \/ WithdrawAll
  \/ CalculateSwapOutput
  \/ CheckPoolHealth
  \/ CalculateLiquidityValue
  \/ GetUserLiquidityPositions

SpecMath == InitMath /\ [][NextMath]_vars

(***************************************************************************)
(* Swaps against one pool: the pool gains inputAmount on the input side    *)
(* and gives up calculateSwapOutput(...) on the output side.  sources      *)
(* holds the pool, args the swap last applied, result its output.          *)
(***************************************************************************)
\* the pool as a LiquiditySource with the given reserves
PoolWith(reserveA, reserveB) ==
  [poolId |-> 1, reserveA |-> reserveA, reserveB |-> reserveB, totalShares |-> Num(1),
   fee |-> Num(30),
   tvl |-> JsAdd(reserveA, reserveB),
   price |-> calculateSpotPrice(reserveA, reserveB)]

SwapsDone == IF args.fn = "swap" THEN args.count ELSE 0

\* fees of the swaps after the first are multiples of 25 %, and a swap at
\* any other fee ends the sequence, which keeps the numerators and
\* denominators of the reserves within 32 bits
LaterFees == {0, 2500, 5000, 10000}

MoreSwaps ==
  /\ SwapsDone < MaxSwaps
  /\ args.fn = "swap" => args.feeBps \in {Num(f) : f \in LaterFees}

SwapFees == IF SwapsDone = 0 THEN FeeBpsValues ELSE LaterFees

InitSwaps ==
  /\ op = "none"
  /\ sources \in {<<PoolWith(Num(a), Num(b))>> : a \in PositiveReserves, b \in PositiveReserves}
  /\ inputAmount = Num(1)
  /\ maxSplits = 0
  /\ ledger = NoLedger
  /\ config = NoConfig
  /\ reads = <<>>
  /\ args = NoArgs
  /\ result = Null
  /\ AdminIdle

\* a swap of asset A for asset B
SwapAForB ==
  /\ MoreSwaps
  /\ \E a \in SwapAmounts, f \in SwapFees :
       LET pool == sources[1]
           output == calculateSwapOutput(Num(a), pool.reserveA, pool.reserveB, Num(f))
       IN /\ result' = output
          /\ sources' = <<PoolWith(JsAdd(pool.reserveA, Num(a)), JsSub(pool.reserveB, output))>>
          /\ args' = [fn |-> "swap", count |-> SwapsDone + 1, aForB |-> TRUE,
                      inputAmount |-> Num(a), feeBps |-> Num(f),
                      inputReserve |-> pool.reserveA, outputReserve |-> pool.reserveB]
  /\ op' = "swap"
  /\ UNCHANGED <<inputAmount, maxSplits, ledger, config, reads>>
  /\ UNCHANGED adminVars

\* a swap of asset B for asset A
SwapBForA ==
  /\ MoreSwaps
  /\ \E a \in SwapAmounts, f \in SwapFees :
       LET pool == sources[1]
           output == calculateSwapOutput(Num(a), pool.reserveB, pool.reserveA, Num(f))
       IN /\ result' = output
          /\ sources' = <<PoolWith(JsSub(pool.reserveA, output), JsAdd(pool.reserveB, Num(a)))>>
          /\ args' = [fn |-> "swap", count |-> SwapsDone + 1, aForB |-> FALSE,
                      inputAmount |-> Num(a), feeBps |-> Num(f),
                      inputReserve |-> pool.reserveB, outputReserve |-> pool.reserveA]
  /\ op' = "swap"
  /\ UNCHANGED <<inputAmount, maxSplits, ledger, config, reads>>
  /\ UNCHANGED adminVars

NextSwaps == SwapAForB \/ SwapBForA

SpecSwaps == InitSwaps /\ [][NextSwaps]_vars

(***************************************************************************)
(* Admin page: approval and rejection of pledge requests                   *)
(* (src/src/app/admin/page.tsx).  A handler runs from one await to the     *)
(* next in one step; handlers of one session and of different sessions     *)
(* interleave at the awaits.                                               *)
(***************************************************************************)
InitAdmin ==
  /\ op = "none"
  /\ sources = <<>>
  /\ inputAmount = Num(1)
  /\ maxSplits = 0
  /\ ledger = NoLedger
  /\ config = NoConfig
  /\ reads = <<>>
  /\ args = NoArgs
  /\ result = Null
  /\ AdminIdle

\* the buttons of a request are rendered for the pending entries of the
\* session's list and are disabled only while processing is that request
ButtonsEnabled(s, p) == pledges[s][p] = "pending" /\ processing[s] # p

\* a click on Approve, confirmed: setProcessing(id), and the handler runs up
\* to its first await, the status update
ClickApprove(s, p) ==
  /\ started < MaxCalls
  /\ ButtonsEnabled(s, p)
  /\ processing' = [processing EXCEPT ![s] = p]
  /\ calls' = calls \cup {[id |-> started + 1, session |-> s, pledge |-> p,
                            kind |-> "approve", pc |-> "update"]}
  /\ started' = started + 1
  /\ UNCHANGED <<pledgeStatus, payments, pledges>>
  /\ UNCHANGED callVars

\* a click on Reject, confirmed
ClickReject(s, p) ==
  /\ started < MaxCalls
  /\ ButtonsEnabled(s, p)
  /\ processing' = [processing EXCEPT ![s] = p]
  /\ calls' = calls \cup {[id |-> started + 1, session |-> s, pledge |-> p,
                            kind |-> "reject", pc |-> "update"]}
  /\ started' = started + 1
  /\ UNCHANGED <<pledgeStatus, payments, pledges>>
  /\ UNCHANGED callVars

\* update({ status }).eq('id', id) has been carried out: the row is written
\* whatever its status was; handleApprove goes on to mint, handleReject to
\* reload the list
UpdateDone(c) ==
  /\ c \in calls /\ c.pc = "update"
  /\ pledgeStatus' = [pledgeStatus EXCEPT ![c.pledge] =
                        IF c.kind = "approve" THEN "approved" ELSE "rejected"]
  /\ calls' = (calls \ {c}) \cup
                {[c EXCEPT !.pc = IF c.kind = "approve" THEN "mint" ELSE "reload"]}
  /\ UNCHANGED <<payments, pledges, processing, started>>
  /\ UNCHANGED callVars

\* the payment of requested_tokens has been accepted by the ledger; the log
\* rows are inserted and the handler goes on to reload the list
MintDone(c) ==
  /\ c \in calls /\ c.pc = "mint"
  /\ payments' = [payments EXCEPT ![c.pledge] = @ + 1]
  /\ calls' = (calls \ {c}) \cup {[c EXCEPT !.pc = "reload"]}
  /\ UNCHANGED <<pledgeStatus, pledges, processing, started>>
  /\ UNCHANGED callVars

\* the awaited step fails (update error, no issuer secret, account load or
\* submission rejected): catch alerts, finally setProcessing(null)
StepFails(c) ==
  /\ c \in calls /\ c.pc \in {"update", "mint"}
  /\ calls' = calls \ {c}
  /\ processing' = [processing EXCEPT ![c.session] = "null"]
  /\ UNCHANGED <<pledgeStatus, payments, pledges, started>>
  /\ UNCHANGED callVars

\* await loadPledgeRequests() at the end of a handler, then setProcessing(null)
ReloadDone(c) ==
  /\ c \in calls /\ c.pc = "reload"
  /\ pledges' = [pledges EXCEPT ![c.session] = pledgeStatus]
  /\ calls' = calls \ {c}
  /\ processing' = [processing EXCEPT ![c.session] = "null"]
  /\ UNCHANGED <<pledgeStatus, payments, started>>
  /\ UNCHANGED callVars

NextAdmin ==
  \/ \E s \in Sessions, p \in PledgeIds : ClickApprove(s, p)
  \/ \E s \in Sessions, p \in PledgeIds : ClickReject(s, p)
  \/ \E c \in calls : UpdateDone(c)
  \/ \E c \in calls : MintDone(c)
  \/ \E c \in calls : StepFails(c)
  \/ \E c \in calls : ReloadDone(c)

SpecAdmin == InitAdmin /\ [][NextAdmin]_vars

(***************************************************************************)
(* Properties                                                              *)
(***************************************************************************)
\* the swap output of source number i of the list at the full input amount
SwapOutputAt(i) ==
  calculateSwapOutput(inputAmount, sources[i].reserveA, sources[i].reserveB, sources[i].fee)

\* the first source of the list among those of greatest output
BestIndex ==
  CHOOSE i \in 1 .. Len(sources) :
    /\ \A j \in 1 .. Len(sources) : ~JsLt(SwapOutputAt(i), SwapOutputAt(j))
    /\ \A j \in 1 .. i - 1 : JsLt(SwapOutputAt(j), SwapOutputAt(i))

\* C1: findBestSource returns none for the empty list and otherwise the source
\* of greatest swap output at the full input amount, the first one on a tie.
C1_BestSource ==
  op = "findBestSource" =>
    IF Len(sources) = 0 THEN result = Null ELSE result = sources[BestIndex]

IsFailureShape(r) ==
  /\ r.success = FALSE
  /\ r.liquidityAdded = [assetA |-> Num(0), assetB |-> Num(0)]
  /\ r.sourcesUsed = <<>>

C4_NoSources ==
  (op = "bootstrapNewPool" /\ sources = <<>>) =>
    /\ IsFailureShape(result)
    /\ result.message = "No liquidity sources available for bootstrapping"

C4_Witness ==
  /\ op = "bootstrapNewPool"
  /\ sources = <<>>
  /\ result.message = "No liquidity sources available for bootstrapping"

\* C5: bootstrapNewPool never throws: it returns a result value for every
\* ledger outcome and config, and a result with success = false has planned
\* amounts (0, 0) and an empty sourcesUsed list.
C5_NeverThrows ==
  op = "bootstrapNewPool" =>
    /\ "success" \in DOMAIN result
    /\ (result.success = FALSE => IsFailureShape(result))

C5_Witness ==
  /\ op = "bootstrapNewPool"
  /\ \E t \in Tiers : ledger[t].kind = "error"
  /\ \E t \in Tiers : ledger[t].kind = "pool"
  /\ result.success = FALSE

\* the planned amounts the claim gives for a list of sources and a target
RECURSIVE PlannedB(_, _, _)
PlannedB(srcs, i, target) ==
  IF i = 0 THEN Num(0)
  ELSE JsAdd(PlannedB(srcs, i - 1, target),
             JsMul(JsMul(target, MathMin(JsDiv(srcs[i].tvl, SumTvl(srcs, Len(srcs))), Num(1))),
                   Rat(1, 2)))

RECURSIVE PlannedA(_, _, _)
PlannedA(srcs, i, target) ==
  IF i = 0 THEN Num(0)
  ELSE JsAdd(PlannedA(srcs, i - 1, target),
             JsDiv(JsMul(JsMul(target, MathMin(JsDiv(srcs[i].tvl, SumTvl(srcs, Len(srcs))), Num(1))),
                         Rat(1, 2)),
                   srcs[i].price))

PriceImpactOf(outputAmount, amount, reserveA, reserveB) ==
  JsSub(Num(1), JsDiv(JsDiv(outputAmount, amount), JsDiv(reserveB, reserveA)))

\* the impact of source number i alone on the full input amount
FullImpactAt(i) ==
  PriceImpactOf(SwapOutputAt(i), inputAmount, sources[i].reserveA, sources[i].reserveB)

SelectedIds == {result.sources[i].poolId : i \in 1 .. Len(result.sources)}

\* C7: calculateOptimalRoute allocates to exactly min(maxSplits, number of
\* sources) sources, those of lowest full-amount price impact, listed in
\* ascending order of that impact (stated for sources of positive reserves).
C7_RouteSelection ==
  (op = "calculateOptimalRoute" /\ Len(sources) > 0) =>
    /\ Len(result.sources) = MinInt(maxSplits, Len(sources))
    /\ (\A i \in 1 .. Len(sources) :
          JsGt(sources[i].reserveA, Num(0)) /\ JsGt(sources[i].reserveB, Num(0))) =>
         /\ \A i, j \in 1 .. Len(result.sources) :
              i < j => ~JsLt(FullImpactAt(result.sources[j].poolId),
                             FullImpactAt(result.sources[i].poolId))
         /\ \A i \in SelectedIds : \A j \in (1 .. Len(sources)) \ SelectedIds :
              ~JsLt(FullImpactAt(j), FullImpactAt(i))

\* C8: each allocation's inputAmount is inputAmount divided by the number of
\* selected sources.
C8_EqualSplit ==
  (op = "calculateOptimalRoute" /\ Len(sources) > 0) =>
    \A i \in 1 .. Len(result.sources) :
      result.sources[i].inputAmount = JsDiv(inputAmount, Num(Len(result.sources)))

C8_Witness ==
  /\ op = "calculateOptimalRoute"
  /\ Len(result.sources) = 2
  /\ sources[1].tvl # sources[2].tvl
  /\ result.sources[1].inputAmount = JsDiv(inputAmount, Num(2))

RECURSIVE SumOf(_, _, _)
SumOf(allocs, f, i) ==
  IF i = 0 THEN Num(0) ELSE JsAdd(SumOf(allocs, f, i - 1), allocs[i][f])

\* C9: in a route with allocations, totalInput is the sum of the allocations'
\* inputAmount, totalOutput the sum of their outputAmount, averagePriceImpact
\* the mean of their priceImpact and effectivePrice = totalInput / totalOutput.
C9_RouteTotals ==
  (op = "calculateOptimalRoute" /\ Len(result.sources) > 0) =>
    LET n == Len(result.sources)
    IN /\ JsEq(result.totalInput, SumOf(result.sources, "inputAmount", n))
       /\ JsEq(result.totalOutput, SumOf(result.sources, "outputAmount", n))
       /\ JsEq(result.averagePriceImpact,
               JsDiv(SumOf(result.sources, "priceImpact", n), Num(n)))
       /\ JsEq(result.effectivePrice, JsDiv(result.totalInput, result.totalOutput))

\* C10: each allocation carries priceImpact =
\* 1 - (outputAmount / inputAmount) / (reserveB / reserveA) of its source on the
\* allocated sub-amount (stated for sources with positive reserves).
C10_AllocationImpact ==
  op = "calculateOptimalRoute" =>
    \A i \in 1 .. Len(result.sources) :
      LET a == result.sources[i]
          s == sources[a.poolId]
      IN (JsGt(s.reserveA, Num(0)) /\ JsGt(s.reserveB, Num(0))) =>
           JsEq(a.priceImpact,
                PriceImpactOf(a.outputAmount, a.inputAmount, s.reserveA, s.reserveB))

\* C11: calculateOptimalRoute on an empty source list returns, for every
\* inputAmount and maxSplits, a route with no allocation and with totalInput,
\* totalOutput, averagePriceImpact and effectivePrice all 0.
C11_EmptyListRoute ==
  (op = "calculateOptimalRoute" /\ Len(sources) = 0) =>
    /\ result.sources = <<>>
    /\ JsEq(result.totalInput, Num(0))
    /\ JsEq(result.totalOutput, Num(0))
    /\ JsEq(result.averagePriceImpact, Num(0))
    /\ JsEq(result.effectivePrice, Num(0))

C11_Witness ==
  /\ op = "calculateOptimalRoute"
  /\ Len(sources) = 0
  /\ maxSplits > 0
  /\ JsEq(result.effectivePrice, Num(0))

\* the ledger with every failing lookup answered "not found" instead
ErrorsAsNotFound ==
  [t \in Tiers |-> IF ledger[t].kind = "error" THEN [kind |-> "notfound"] ELSE ledger[t]]

ReadTiers == {reads[i] : i \in 1 .. Len(reads)}

\* C12: discoverLiquiditySources returns a list for every combination of
\* per-tier lookup outcomes; a tier whose lookup fails with a transport error
\* contributes what a not-found tier contributes, nothing, and the remaining
\* tiers are still looked up.
C12_FailureIsolated ==
  op = "discoverLiquiditySources" =>
    /\ DOMAIN result = 1 .. Len(result)
    /\ result = discoverLiquiditySources(config.assetA, config.assetB, ErrorsAsNotFound)
    /\ \A t \in Tiers : ledger[t].kind = "error" => (Tiers \ {t}) \subseteq ReadTiers

\* C13: the list returned by discoverLiquiditySources holds a source with fee
\* f, for f in {30, 100, 300}, exactly when the ledger answers the lookup of
\* the pair's pool at tier f with a pool; the list is empty only if no tier
\* has one.
C13_SourcePerPool ==
  op = "discoverLiquiditySources" =>
    /\ \A f \in Tiers :
         (\E i \in 1 .. Len(result) : result[i].fee = Num(f)) <=> ledger[f].kind = "pool"
    /\ (Len(result) = 0 => PoolTiers = {})

PoolIdsOf(srcs) == [i \in 1 .. Len(srcs) |-> srcs[i].poolId]

IsCanonical(source) == AssetBefore(source.assetA, source.assetB)

RECURSIVE SumPriceTvl(_, _)
SumPriceTvl(srcs, i) ==
  IF i = 0 THEN Num(0)
  ELSE JsAdd(SumPriceTvl(srcs, i - 1), JsMul(srcs[i].price, srcs[i].tvl))

C17_SwapMonotone ==
  op = "calculateSwapOutput" =>
    /\ result.k = "fin"
    /\ \A a \in SwapAmounts :
         ~JsLt(Num(a), args.inputAmount) =>
           ~JsLt(calculateSwapOutput(Num(a), args.inputReserve, args.outputReserve, args.feeBps),
                 result)
    /\ \A q \in PositiveReserves :
         ~JsLt(Num(q), args.outputReserve) =>
           ~JsLt(calculateSwapOutput(args.inputAmount, args.inputReserve, Num(q), args.feeBps),
                 result)
    /\ (JsGt(args.feeBps, Num(0)) /\ JsGt(args.inputAmount, Num(0))) =>
         JsLt(result, JsDiv(JsMul(args.inputAmount, args.outputReserve), args.inputReserve))

C17_Witness ==
  /\ op = "calculateSwapOutput"
  /\ args.feeBps = Num(30)
  /\ args.inputAmount = Num(1)
  /\ JsGt(result, Num(0))
  /\ JsLt(result, JsDiv(JsMul(args.inputAmount, args.outputReserve), args.inputReserve))
  /\ JsGt(calculateSwapOutput(Num(2), args.inputReserve, args.outputReserve, args.feeBps),
          result)

\* reserveA / reserveB lies outside [0.1, 10], on whole-number reserves
RatioOutside(source) ==
  \/ source.reserveA.n > 10 * source.reserveB.n
  \/ 10 * source.reserveA.n < source.reserveB.n

\* the deductions the claim lists for a source
Deductions(source) ==
  <<IF source.tvl.n < 1000 * source.tvl.d THEN 30 ELSE 0,
    IF RatioOutside(source) THEN 20 ELSE 0,
    IF source.totalShares = Num(0) THEN 50 ELSE 0>>

\* C19: checkPoolHealth returns score = 100 - 30 [tvl < 1000]
\* - 20 [reserveA / reserveB outside [0.1, 10]] - 50 [totalShares = 0], floored
\* at 0, one issue text per deduction applied, and healthy exactly when that
\* score is at least 50.
C19_HealthScore ==
  op = "checkPoolHealth" =>
    LET d == Deductions(args.source)
        raw == 100 - d[1] - d[2] - d[3]
        score == IF raw < 0 THEN 0 ELSE raw
    IN /\ result.score = score
       /\ result.healthy = (score >= 50)
       /\ Len(result.issues) = Cardinality({i \in 1 .. 3 : d[i] > 0})
       /\ ("Low TVL (< $1,000)" \in {result.issues[i] : i \in 1 .. Len(result.issues)})
            = (d[1] > 0)
       /\ ("Imbalanced reserves" \in {result.issues[i] : i \in 1 .. Len(result.issues)})
            = (d[2] > 0)
       /\ ("No liquidity providers" \in {result.issues[i] : i \in 1 .. Len(result.issues)})
            = (d[3] > 0)

\* tvl = 500, totalShares = 0 and ratio 1 give score 20 and healthy = false
C19_Witness ==
  /\ op = "checkPoolHealth"
  /\ args.source.tvl = Num(500)
  /\ args.source.totalShares = Num(0)
  /\ args.source.reserveA = args.source.reserveB
  /\ result.score = 20
  /\ result.healthy = FALSE

\* C20: the withdraw estimate for shares out of totalShares is
\* (reserveA * shares / totalShares, reserveB * shares / totalShares) when
\* totalShares > 0 and (0, 0) when totalShares = 0, both as
\* calculateLiquidityValue computes it and as get_user_liquidity_positions does.
C20_WithdrawEstimate ==
  LET expectedA == IF args.totalShares > 0
                   THEN Rat(args.reserves[1].amount * args.shares, args.totalShares)
                   ELSE Num(0)
      expectedB == IF args.totalShares > 0
                   THEN Rat(args.reserves[2].amount * args.shares, args.totalShares)
                   ELSE Num(0)
  IN /\ op = "calculateLiquidityValue" =>
          (JsEq(result.value0, expectedA) /\ JsEq(result.value1, expectedB))
     /\ op = "get_user_liquidity_positions" =>
          (JsEq(result.current_asset_a_value, expectedA)
             /\ JsEq(result.current_asset_b_value, expectedB))

\* 50 of 1000 shares on reserves (1000, 2000) give (50, 100)
C20_Witness ==
  /\ op = "calculateLiquidityValue"
  /\ args.shares = 50
  /\ args.totalShares = 1000
  /\ args.reserves = <<[amount |-> 1000], [amount |-> 2000]>>
  /\ result = [value0 |-> Num(50), value1 |-> Num(100)]

\* C21: the deposit share estimate is sqrt(amountA * amountB) when
\* totalShares = 0 (here to two decimal places) and otherwise
\* min(amountA / reserveA, amountB / reserveB) * totalShares, the limiting
\* side alone deciding the shares.
C21_DepositShares ==
  op = "estimatedShares" =>
    LET a == args.assetA
        b == args.assetB
        rA == args.pool.total_asset_a
        rB == args.pool.total_asset_b
        t == args.pool.total_shares
    IN IF t = Num(0)
       THEN /\ ~JsGt(JsMul(result, result), JsMul(a, b))
            /\ JsGt(JsMul(JsAdd(result, Rat(1, 100)), JsAdd(result, Rat(1, 100))), JsMul(a, b))
       ELSE IF JsLt(JsMul(a, rB), JsMul(b, rA))
            THEN JsEq(result, JsDiv(JsMul(a, t), rA))
            ELSE JsEq(result, JsDiv(JsMul(b, t), rB))

\* depositing (100, 150) into reserves (1000, 2000) with 1000 shares mints 75
C21_Witness ==
  /\ op = "estimatedShares"
  /\ args.assetA = Num(100)
  /\ args.assetB = Num(150)
  /\ args.pool = [total_asset_a |-> Num(1000), total_asset_b |-> Num(2000),
                  total_shares |-> Num(1000)]
  /\ result = Num(75)

EmptyPoolRow ==
  [total_asset_a |-> Num(0), total_asset_b |-> Num(0), total_shares |-> Num(0)]

\* C22: depositing (a, b), a, b > 0, into an empty pool and withdrawing all
\* the shares that deposit minted, with no swap in between, returns (a, b).
C22_RoundTrip ==
  (op = "withdrawAll" /\ args.pool = EmptyPoolRow) =>
    /\ JsEq(result.value0, args.assetA)
    /\ JsEq(result.value1, args.assetB)

C22_Witness ==
  /\ op = "withdrawAll"
  /\ args.pool = EmptyPoolRow
  /\ args.assetA = Num(1)
  /\ args.assetB = Num(2)
  /\ result = [value0 |-> Num(1), value1 |-> Num(2)]

\* C23: once handleApprove has run for a pledge request (no approval of it is
\* under way), the request has status 'approved' only if a PLAT payment to
\* its wallet was submitted successfully.
C23_ApprovedMeansMinted ==
  \A p \in PledgeIds :
    (pledgeStatus[p] = "approved"
       /\ ~\E c \in calls : c.pledge = p /\ c.kind = "approve") =>
      payments[p] >= 1

\* C28: at most one PLAT payment is submitted per pledge request, and a
\* rejected pledge request has none.
C28_MintedAtMostOnce ==
  \A p \in PledgeIds :
    /\ payments[p] <= 1
    /\ (pledgeStatus[p] = "rejected" => payments[p] = 0)

\* the fee values of a list of sources, in list order
FeesOf(srcs) == [i \in 1 .. Len(srcs) |-> srcs[i].fee.n]

\* each tier at most once, in the order of feeTiers
InTierOrder(tiers) ==
  /\ \A i \in 1 .. Len(tiers) : tiers[i] \in Tiers
  /\ \A i, j \in 1 .. Len(tiers) : i < j => tiers[i] < tiers[j]

IsFinite(v) == v.k = "fin"

\* a < b on finite numbers, compared over the least common denominator
LessThan(a, b) ==
  LET g == Gcd(a.d, b.d)
  IN a.n * (b.d \div g) < b.n * (a.d \div g)

\* C25: every swap on a pool with positive reserves leaves
\* reserveA * reserveB no smaller than before, and with
\* effectiveIn = inputAmount * (10000 - feeBps) / 10000 it satisfies
\* (inputReserve + effectiveIn) * (outputReserve - output)
\*   = inputReserve * outputReserve.
C25_ConstantProduct ==
  op = "swap" =>
    LET pool == sources[1]
        before == JsMul(args.inputReserve, args.outputReserve)
        effectiveIn == JsDiv(JsMul(args.inputAmount, JsSub(Num(10000), args.feeBps)),
                             Num(10000))
    IN /\ JsGt(pool.reserveA, Num(0)) /\ JsGt(pool.reserveB, Num(0))
       /\ IsFinite(before)
       /\ IsFinite(JsMul(pool.reserveA, pool.reserveB))
       /\ ~LessThan(JsMul(pool.reserveA, pool.reserveB), before)
       /\ JsEq(JsMul(JsAdd(args.inputReserve, effectiveIn),
                     JsSub(args.outputReserve, result)),
               before)

C25_Witness ==
  /\ op = "swap"
  /\ args.count = 2
  /\ args.feeBps = Num(2500)
  /\ JsGt(result, Num(0))
  /\ LessThan(JsMul(args.inputReserve, args.outputReserve),
              JsMul(sources[1].reserveA, sources[1].reserveB))

\* C26: for a non-empty source list and inputAmount > 0, findBestSource
\* returns one of the listed sources and never none, also when every
\* source's output is 0.
C26_NeverNone ==
  (op = "findBestSource" /\ Len(sources) > 0 /\ JsGt(inputAmount, Num(0))) =>
    \E i \in 1 .. Len(sources) : result = sources[i]

\* C27: for a non-empty source list, inputAmount > 0 and maxSplits >= 0,
\* the per-split amount, averagePriceImpact and effectivePrice of the route
\* calculateOptimalRoute returns are finite numbers.
C27_NoDivisionByZero ==
  (op = "calculateOptimalRoute" /\ Len(sources) > 0 /\ JsGt(inputAmount, Num(0))
     /\ maxSplits >= 0) =>
    /\ IsFinite(AmountPerSplit(inputAmount, MinInt(maxSplits, Len(sources))))
    /\ \A i \in 1 .. Len(result.sources) : IsFinite(result.sources[i].inputAmount)
    /\ IsFinite(result.averagePriceImpact)
    /\ IsFinite(result.effectivePrice)

JsLe(a, b) == JsLt(a, b) \/ JsEq(a, b)

====
